---- MODULE Spec2Model ----
(***************************************************************************)
(* fuzzypanda: fuzzy columns for joining two tables.                       *)
(*                                                                         *)
(* A string is a sequence of one-character strings.  PreProcessor          *)
(* (preprocess.py) maps a string to its canonical form; Fuzzy              *)
(* (fuzzypanda.py) stages a right column in a corpus file, builds the      *)
(* SymSpell dictionary and the reverse index from it and answers queries;  *)
(* get_fuzzy_columns drives one Fuzzy object per column pair.              *)
(***************************************************************************)
EXTENDS Integers, Sequences, FiniteSets, TLC

VARIABLES
    screened_chars,   \* PreProcessor.screened_chars of the pre-processor object
    pp_calls,         \* the preprocess calls made on it: <<[s, t], ...>>, argument and result
    left_dataframe,   \* the left table: column name -> list of values
    right_dataframe,  \* the right table
    left_before,      \* the left table as it was when get_fuzzy_columns was called
    args,             \* left_cols, right_cols, null_return, max_edit_distance of the call
    pc,               \* where the get_fuzzy_columns call stands
    pair_i,           \* the loop index i over left_cols (from 1)
    files,            \* the working directory: file name -> text
    fuzz,             \* the Fuzzy object of the current pair (fuzz_obj)
    log,              \* the index_dictionary conflict warnings of the current pair
    queries,          \* the Fuzzy.query calls of the current pair, one per row done
    fuzzy_cols,       \* the fuzzy columns collected so far
    raised,           \* the exception the call ended with, or None
    other             \* a second call that is suspended (its own state), or None

run_vars == <<left_dataframe, right_dataframe, left_before, args, pc, pair_i, files, fuzz,
              log, queries, fuzzy_cols, raised, other>>

vars == <<screened_chars, pp_calls, left_dataframe, right_dataframe, left_before, args,
          pc, pair_i, files, fuzz, log, queries, fuzzy_cols, raised, other>>

(***************************************************************************)
(* Characters and the str methods the code uses                            *)
(***************************************************************************)

\* The characters of the model
Chars == {"\n", " ", "!", "&", "A", "B", "a", "b", "d", "n"}

\* Code point of a character: Python compares strings by code point.
Ord(c) ==
    CASE c = "\n" -> 10
      [] c = " "  -> 32
      [] c = "!"  -> 33
      [] c = "&"  -> 38
      [] c = "A"  -> 65
      [] c = "B"  -> 66
      [] c = "a"  -> 97
      [] c = "b"  -> 98
      [] c = "d"  -> 100
      [] c = "n"  -> 110

\* str.isspace for one character: what str.split() and str.strip() remove.
IsSpace(c) == c \in {" ", "\n"}

\* str.lower
LowerChar(c) ==
    CASE c = "A" -> "a"
      [] c = "B" -> "b"
      [] OTHER   -> c

lower(s) == [k \in 1..Len(s) |-> LowerChar(s[k])]

\* str.replace(c, r) for a one-character c
RECURSIVE replace(_, _, _)
replace(t, c, r) ==
    IF t = <<>> THEN <<>>
    ELSE (IF Head(t) = c THEN r ELSE <<Head(t)>>) \o replace(Tail(t), c, r)

\* str.split(): the maximal runs of non-whitespace characters, in order
RECURSIVE SplitFrom(_, _, _)
SplitFrom(t, cur, acc) ==
    IF t = <<>> THEN (IF cur = <<>> THEN acc ELSE Append(acc, cur))
    ELSE IF IsSpace(Head(t))
         THEN SplitFrom(Tail(t), <<>>, IF cur = <<>> THEN acc ELSE Append(acc, cur))
         ELSE SplitFrom(Tail(t), Append(cur, Head(t)), acc)

split(t) == SplitFrom(t, <<>>, <<>>)

\* x < y for two strings (lexicographic, by code point)
RECURSIVE StrLess(_, _)
StrLess(x, y) ==
    IF y = <<>> THEN FALSE
    ELSE IF x = <<>> THEN TRUE
    ELSE IF Head(x) = Head(y) THEN StrLess(Tail(x), Tail(y))
    ELSE Ord(Head(x)) < Ord(Head(y))

\* list.sort() on a list of strings
RECURSIVE SortInsert(_, _)
SortInsert(x, tl) ==
    IF tl = <<>> THEN <<x>>
    ELSE IF StrLess(x, Head(tl)) THEN <<x>> \o tl
    ELSE <<Head(tl)>> \o SortInsert(x, Tail(tl))

RECURSIVE sort(_)
sort(tl) == IF tl = <<>> THEN <<>> ELSE SortInsert(tl[Len(tl)], sort(SubSeq(tl, 1, Len(tl) - 1)))

\* ''.join(tl)
RECURSIVE join(_)
join(tl) == IF tl = <<>> THEN <<>> ELSE Head(tl) \o join(Tail(tl))

\* str.strip()
RECURSIVE lstrip(_)
lstrip(s) == IF s # <<>> /\ IsSpace(Head(s)) THEN lstrip(Tail(s)) ELSE s

RECURSIVE rstrip(_)
rstrip(s) == IF s # <<>> /\ IsSpace(s[Len(s)]) THEN rstrip(SubSeq(s, 1, Len(s) - 1)) ELSE s

strip(s) == rstrip(lstrip(s))

(***************************************************************************)
(* PreProcessor                                                            *)
(***************************************************************************)

\* PreProcessor.__init__: the default screened characters (those of the
\* model's alphabet), in the order of the source string.
DefaultScreenedChars == <<"!", "&">>

\* The replacement of one screened character
Replacement(c) == IF c = "&" THEN <<" ", "a", "n", "d", " ">> ELSE <<>>

\* The loop over screened_chars, in order
RECURSIVE Screen(_, _)
Screen(t, sc) ==
    IF sc = <<>> THEN t
    ELSE Screen(replace(t, Head(sc), Replacement(Head(sc))), Tail(sc))

\* A preprocess that screens after the split/sort/join instead of before it
preprocess_ScreenLast(s, sc) == Screen(join(sort(split(lower(s)))), sc)

\* A preprocess that forgets to sort the tokens
preprocess_NoSort(s, sc) == join(split(Screen(lower(s), sc)))

\* PreProcessor.preprocess, with self.screened_chars = sc
preprocess(s, sc) == join(sort(split(Screen(lower(s), sc))))

(***************************************************************************)
(* Python values, files                                                    *)
(***************************************************************************)

\* A Python object is a record with its type and, for a str or a list, its
\* value; an int and a tuple stand for arguments of the wrong type.
None == [type |-> "NoneType"]
Str(s) == [type |-> "str", val |-> s]
List(l) == [type |-> "list", val |-> l]
AnInt == [type |-> "int"]
ATuple == [type |-> "tuple"]

\* A value of a column that is no str (a float such as NaN): a cell is a
\* sequence, and a str is a sequence of characters
NaN == <<"nan">>
IsStr(v) == \A j \in 1..Len(v) : v[j] \in Chars

\* An exception: its type, the column, file, key or parameter it is about and
\* the source line that raises it
Exception(type, what, line) == [type |-> type, what |-> what, line |-> line]

\* The column names in the report of an exception about a column: the message
\* of line 338-342 names the column and every column of the dataframe, those
\* of lines 429 and 444 and the KeyError of line 467 name the column only
ReportedColumns(e, dataframe) ==
    IF e.line = 342 THEN {e.what} \cup DOMAIN dataframe ELSE {e.what}

Min(S) == CHOOSE x \in S : \A y \in S : x <= y
Max(S) == CHOOSE x \in S : \A y \in S : x >= y

\* os.path.exists
exists(fs, name) == name \in DOMAIN fs

\* open(name, 'w'), the writes and the close: the file holds text afterwards
WriteFile(fs, name, text) ==
    [n \in DOMAIN fs \cup {name} |-> IF n = name THEN text ELSE fs[n]]

\* os.remove
remove(fs, name) == [n \in DOMAIN fs \ {name} |-> fs[n]]

\* for line in file: the lines of a text, each with its line break (the last
\* one without, when the text does not end with one)
RECURSIVE LinesFrom(_, _, _)
LinesFrom(text, cur, acc) ==
    IF text = <<>> THEN (IF cur = <<>> THEN acc ELSE Append(acc, cur))
    ELSE IF Head(text) = "\n"
         THEN LinesFrom(Tail(text), <<>>, Append(acc, Append(cur, "\n")))
         ELSE LinesFrom(Tail(text), Append(cur, Head(text)), acc)

Lines(text) == LinesFrom(text, <<>>, <<>>)

(***************************************************************************)
(* SymSpell, as fuzzypanda.py uses it and describes it                     *)
(***************************************************************************)

\* The Damerau-Levenshtein (optimal string alignment) distance of x and y
EditDistance(x, y) ==
    LET D[m \in 0..Len(x), n \in 0..Len(y)] ==
            IF m = 0 THEN n
            ELSE IF n = 0 THEN m
            ELSE LET best == Min({D[m - 1, n - 1] + (IF x[m] = y[n] THEN 0 ELSE 1),
                                  D[m - 1, n] + 1,
                                  D[m, n - 1] + 1})
                 IN  IF m > 1 /\ n > 1 /\ x[m] = y[n - 1] /\ x[m - 1] = y[n]
                     THEN Min({best, D[m - 2, n - 2] + 1})
                     ELSE best
    IN  D[Len(x), Len(y)]

\* SymSpell.create_dictionary(corpus): every whitespace-separated word of
\* every line of the corpus, lowercased, with the number of times it occurs
\* (class docstring of Fuzzy, and the WARNINGs of PreProcessor.preprocess)
RECURSIVE CorpusWords(_)
CorpusWords(lines) ==
    IF lines = <<>> THEN <<>> ELSE split(lower(Head(lines))) \o CorpusWords(Tail(lines))

create_dictionary(text) ==
    LET ws == CorpusWords(Lines(text))
    IN  [w \in {ws[k] : k \in 1..Len(ws)} |-> Cardinality({k \in 1..Len(ws) : ws[k] = w})]

\* SymSpell.lookup(phrase, Verbosity.TOP, include_unknown=True): the words of
\* the dictionary closest to phrase within max_edit_distance, of those the
\* most frequent (one of them is suggest[0]); with none within
\* max_edit_distance, the phrase itself at distance max_edit_distance + 1.
lookup(words, phrase, max_edit_distance) ==
    LET near == {w \in DOMAIN words : EditDistance(phrase, w) <= max_edit_distance}
        d    == Min({EditDistance(phrase, w) : w \in near})
        best == {w \in near : EditDistance(phrase, w) = d}
        top  == {w \in best : words[w] = Max({words[v] : v \in best})}
    IN  IF near = {}
        THEN {[term |-> phrase, distance |-> max_edit_distance + 1]}
        ELSE {[term |-> w, distance |-> d] : w \in top}

(***************************************************************************)
(* Fuzzy                                                                   *)
(***************************************************************************)

\* Fuzzy.__init__, lines 113-120: the attributes before bootstrapping
NewFuzzy(input_corpus, max_edit_distance) ==
    [preprocess_flag |-> FALSE,
     unprocessed_corpus |-> None,
     sym_spell |-> None,
     index_dictionary |-> None,
     corpus |-> input_corpus,
     max_edit_distance_dictionary |-> max_edit_distance]

\* Fuzzy.preprocess_corpus: the name of the processed corpus file
ProcessedName(corpus) == <<"preprocessed_">> \o corpus

\* Fuzzy.preprocess_corpus: the text written to the processed corpus file
RECURSIVE ProcessedText(_, _)
ProcessedText(lines, sc) ==
    IF lines = <<>> THEN <<>>
    ELSE preprocess(Head(lines), sc) \o <<"\n">> \o ProcessedText(Tail(lines), sc)

\* A create_index that keys the index by the lowercased original string
\* instead of the pre-processed one
IndexLine_RawKey(acc, line, sc) ==
    LET original_string  == strip(line)
        processed_string == lower(original_string)
    IN  IF processed_string \in DOMAIN acc.map
           /\ acc.map[processed_string] # original_string
        THEN [map |-> acc.map,
              log |-> Append(acc.log, [original |-> original_string,
                                       conflict |-> acc.map[processed_string],
                                       key |-> processed_string])]
        ELSE [map |-> [k \in DOMAIN acc.map \cup {processed_string} |->
                          IF k = processed_string THEN original_string ELSE acc.map[k]],
              log |-> acc.log]

\* One pass of the loop of Fuzzy.create_index, lines 233-253
IndexLine(acc, line, sc) ==
    LET original_string  == strip(line)
        processed_string == preprocess(original_string, sc)
    IN  IF processed_string \in DOMAIN acc.map
           /\ acc.map[processed_string] # original_string
        THEN [map |-> acc.map,
              log |-> Append(acc.log, [original |-> original_string,
                                       conflict |-> acc.map[processed_string],
                                       key |-> processed_string])]
        ELSE [map |-> [k \in DOMAIN acc.map \cup {processed_string} |->
                          IF k = processed_string THEN original_string ELSE acc.map[k]],
              log |-> acc.log]

\* Fuzzy.create_index, lines 231-253: the index dictionary and the warnings
RECURSIVE IndexLines(_, _, _)
IndexLines(acc, lines, sc) ==
    IF lines = <<>> THEN acc
    ELSE IndexLines(IndexLine(acc, Head(lines), sc), Tail(lines), sc)

EmptyIndex == [map |-> [k \in {} |-> <<>>], log |-> <<>>]

\* Fuzzy.query with an exclusive threshold
Decide_Exclusive(f, qstring, hit) ==
    IF hit.distance >= f.max_edit_distance_dictionary
    THEN [raised |-> None, out |-> qstring, found |-> FALSE]
    ELSE IF hit.term \in DOMAIN f.index_dictionary.val
         THEN [raised |-> None, out |-> f.index_dictionary.val[hit.term], found |-> TRUE]
         ELSE [raised |-> Exception("KeyError", hit.term, 304), out |-> <<>>, found |-> FALSE]

\* Fuzzy.query, lines 295-307: hit or miss for the suggestion hit
Decide(f, qstring, hit) ==
    IF hit.distance > f.max_edit_distance_dictionary
    THEN [raised |-> None, out |-> qstring, found |-> FALSE]
    ELSE IF hit.term \in DOMAIN f.index_dictionary.val
         THEN [raised |-> None, out |-> f.index_dictionary.val[hit.term], found |-> TRUE]
         ELSE [raised |-> Exception("KeyError", hit.term, 304), out |-> <<>>, found |-> FALSE]

\* get_fuzzy_column.apply_query that returns the query's output on a miss
\* whenever null_return is falsy
apply_value_Falsy(null_return, result) ==
    IF result.found THEN result.out
    ELSE IF null_return = None \/ null_return = Str(<<>>) THEN result.out
    ELSE null_return.val

\* get_fuzzy_column.apply_query, lines 352-360: the value put in the column
apply_value(null_return, result) ==
    IF result.found THEN result.out
    ELSE IF null_return = None THEN result.out
    ELSE null_return.val

(***************************************************************************)
(* get_fuzzy_columns                                                       *)
(***************************************************************************)

\* The call ends with the exception e
Raise(e) == pc' = "raised" /\ raised' = e

\* 'fuzzy_' + left_cols[i], right_col + '_dict.txt'
FuzzyName(col) == <<"fuzzy_">> \o col
DictName(col) == col \o <<"_dict.txt">>

\* left_cols[i], right_cols[i] and dict_name of the pair being processed
left_col == args.left_cols.val[pair_i]
right_col == args.right_cols.val[pair_i]
dict_name == DictName(right_col)

\* The first element of the list cols that is no column of dataframe
FirstMissing(cols, dataframe) ==
    cols[Min({k \in 1..Len(cols) : cols[k] \notin DOMAIN dataframe})]

\* Lines 421-458: the checks of the arguments, in order; the outcome is the
\* exception raised, or None
CheckInputs(a, left, right) ==
    IF a.left_cols.type # "list"
    THEN Exception("ValueError", <<"left_cols">>, 426)
    ELSE IF \E k \in 1..Len(a.left_cols.val) : a.left_cols.val[k] \notin DOMAIN left
    THEN Exception("LookupError", FirstMissing(a.left_cols.val, left), 431)
    ELSE IF a.right_cols # None /\ a.right_cols.type # "list"
    THEN Exception("ValueError", <<"right_cols">>, 440)
    ELSE IF a.right_cols # None
            /\ \E k \in 1..Len(a.right_cols.val) : a.right_cols.val[k] \notin DOMAIN right
    THEN Exception("LookupError", FirstMissing(a.right_cols.val, right), 446)
    ELSE IF a.null_return # None /\ a.null_return.type # "str"
    THEN Exception("ValueError", <<"null_return">>, 453)
    ELSE IF a.max_edit_distance < 1
    THEN Exception("ValueError", <<"max_edit_distance">>, 458)
    ELSE None

\* Lines 462-463 and 478: the loop goes to its next pair, or ends
LoopTo(k) == IF k <= Len(args.left_cols.val) THEN "stage" ELSE "assign"

\* get_fuzzy_columns is called with the arguments a: lines 421-461.
\* right_cols = None is replaced by left_cols (line 435).
GetFuzzyColumns(a) ==
    /\ pc = "ready"
    /\ left_before' = left_dataframe
    /\ IF CheckInputs(a, left_dataframe, right_dataframe) # None
       THEN /\ args' = a
            /\ Raise(CheckInputs(a, left_dataframe, right_dataframe))
            /\ UNCHANGED pair_i
       ELSE /\ args' = [a EXCEPT !.right_cols = IF a.right_cols = None THEN a.left_cols
                                                ELSE a.right_cols]
            /\ pair_i' = 1
            /\ pc' = IF 1 <= Len(a.left_cols.val) THEN "stage" ELSE "assign"
            /\ UNCHANGED raised
    /\ fuzzy_cols' = <<>>
    /\ UNCHANGED <<other, screened_chars, pp_calls, left_dataframe, right_dataframe, files,
                   fuzz, log, queries>>

\* The text of the dictionary file: str(row) + '\n' for every row (line 468)
RECURSIVE DictText(_)
DictText(rows) == IF rows = <<>> THEN <<>> ELSE Head(rows) \o <<"\n">> \o DictText(Tail(rows))

\* Lines 463-468: right_cols[i] is read and the dictionary file is written.
\* The file is opened for writing before the right column is looked up.
StageCorpus ==
    /\ pc = "stage"
    /\ IF pair_i > Len(args.right_cols.val)
       THEN /\ Raise(Exception("IndexError", <<"right_cols">>, 463))
            /\ UNCHANGED files
       ELSE IF right_col \notin DOMAIN right_dataframe
       THEN /\ files' = WriteFile(files, dict_name, <<>>)
            /\ Raise(Exception("KeyError", right_col, 467))
       ELSE /\ files' = WriteFile(files, dict_name, DictText(right_dataframe[right_col]))
            /\ pc' = "preprocess"
            /\ UNCHANGED raised
    /\ UNCHANGED <<other, screened_chars, pp_calls, left_dataframe, right_dataframe, left_before,
                   args, pair_i, fuzz, log, queries, fuzzy_cols>>

\* Fuzzy(input_corpus=dict_name, ...): lines 107-129, check_corpus and
\* preprocess_corpus (lines 140-184)
PreprocessCorpus ==
    /\ pc = "preprocess"
    /\ log' = <<>>
    /\ IF ~exists(files, dict_name)
       THEN /\ fuzz' = NewFuzzy(Str(dict_name), args.max_edit_distance)
            /\ Raise(Exception("FileNotFoundError", dict_name, 150))
            /\ UNCHANGED files
       ELSE /\ files' = WriteFile(files, ProcessedName(dict_name),
                                  ProcessedText(Lines(files[dict_name]), screened_chars))
            /\ fuzz' = [NewFuzzy(Str(dict_name), args.max_edit_distance) EXCEPT
                            !.unprocessed_corpus = Str(dict_name),
                            !.corpus = Str(ProcessedName(dict_name)),
                            !.preprocess_flag = TRUE]
            /\ pc' = "symspell"
            /\ UNCHANGED raised
    /\ UNCHANGED <<other, screened_chars, pp_calls, left_dataframe, right_dataframe, left_before,
                   args, pair_i, queries, fuzzy_cols>>

\* Fuzzy.create_symspell_dict, lines 186-202 (called at line 131)
CreateSymspellDict ==
    /\ pc = "symspell"
    /\ IF ~exists(files, fuzz.corpus.val)
       THEN /\ Raise(Exception("FileNotFoundError", fuzz.corpus.val, 150))
            /\ UNCHANGED fuzz
       ELSE /\ fuzz' = [fuzz EXCEPT !.sym_spell =
                            [type |-> "SymSpell",
                             words |-> create_dictionary(files[fuzz.corpus.val])]]
            /\ pc' = "index"
            /\ UNCHANGED raised
    /\ UNCHANGED <<other, screened_chars, pp_calls, left_dataframe, right_dataframe, left_before,
                   args, pair_i, files, log, queries, fuzzy_cols>>

\* Fuzzy.create_index, lines 204-255 (called at line 132)
CreateIndex ==
    /\ pc = "index"
    /\ IF ~exists(files, fuzz.corpus.val)
       THEN /\ Raise(Exception("FileNotFoundError", fuzz.corpus.val, 150))
            /\ UNCHANGED <<fuzz, log>>
       ELSE IF ~exists(files, fuzz.unprocessed_corpus.val)
       THEN /\ Raise(Exception("FileNotFoundError", fuzz.unprocessed_corpus.val, 228))
            /\ UNCHANGED <<fuzz, log>>
       ELSE LET built == IndexLines(EmptyIndex, Lines(files[fuzz.unprocessed_corpus.val]),
                                    screened_chars)
            IN  /\ fuzz' = [fuzz EXCEPT !.index_dictionary = [type |-> "dict", val |-> built.map]]
                /\ log' = built.log
                /\ pc' = "column"
                /\ UNCHANGED raised
    /\ UNCHANGED <<other, screened_chars, pp_calls, left_dataframe, right_dataframe, left_before,
                   args, pair_i, files, queries, fuzzy_cols>>

\* Fuzzy.get_fuzzy_column, lines 334-349: the checks before the rows
GetFuzzyColumn ==
    /\ pc = "column"
    /\ IF left_col \notin DOMAIN left_dataframe
       THEN Raise(Exception("LookupError", left_col, 342))
       ELSE IF args.null_return # None /\ args.null_return.type # "str"
       THEN Raise(Exception("ValueError", <<"null_return">>, 349))
       ELSE pc' = "rows" /\ UNCHANGED raised
    /\ queries' = <<>>
    /\ UNCHANGED <<other, screened_chars, pp_calls, left_dataframe, right_dataframe, left_before,
                   args, pair_i, files, fuzz, log, fuzzy_cols>>

\* A Fuzzy.query that answers with a miss when the matcher is not built
query_SilentMiss(f, qstring, hit) ==
    IF ~IsStr(qstring)
    THEN [raised |-> Exception("ValueError", <<"qstring">>, 276), out |-> <<>>, found |-> FALSE]
    ELSE IF f.index_dictionary = None
    THEN [raised |-> Exception("ValueError", <<"index_dictionary">>, 281), out |-> <<>>, found |-> FALSE]
    ELSE IF f.sym_spell = None
    THEN [raised |-> None, out |-> qstring, found |-> FALSE]
    ELSE Decide(f, qstring, hit)

\* Fuzzy.query(qstring) when suggest[0] is hit: lines 270-307.  The outcome
\* is the exception raised or the pair (out, found).
query(f, qstring, hit) ==
    IF ~IsStr(qstring)
    THEN [raised |-> Exception("ValueError", <<"qstring">>, 276), out |-> <<>>, found |-> FALSE]
    ELSE IF f.index_dictionary = None
    THEN [raised |-> Exception("ValueError", <<"index_dictionary">>, 281), out |-> <<>>, found |-> FALSE]
    ELSE IF f.sym_spell = None
    THEN [raised |-> Exception("ValueError", <<"sym_spell">>, 286), out |-> <<>>, found |-> FALSE]
    ELSE Decide(f, qstring, hit)

\* The suggestions one of which is suggest[0] (lines 288-296)
Suggestions(f, qstring, sc) ==
    IF ~IsStr(qstring) \/ f.index_dictionary = None \/ f.sym_spell = None
    THEN {[term |-> <<>>, distance |-> 0]}
    ELSE lookup(f.sym_spell.words, preprocess(qstring, sc), f.max_edit_distance_dictionary)

\* dataframe[col_name].apply(apply_query), one row: lines 352-362
QueryRow ==
    /\ pc = "rows"
    /\ Len(queries) < Len(left_dataframe[left_col])
    /\ LET qstring == left_dataframe[left_col][Len(queries) + 1]
       IN  \E hit \in Suggestions(fuzz, qstring, screened_chars) :
             LET result == query(fuzz, qstring, hit)
             IN  IF result.raised # None
                 THEN Raise(result.raised) /\ UNCHANGED queries
                 ELSE /\ queries' = Append(queries,
                            [pair |-> pair_i, qstring |-> qstring, term |-> hit.term,
                             distance |-> hit.distance, out |-> result.out,
                             found |-> result.found,
                             value |-> apply_value(args.null_return, result)])
                      /\ UNCHANGED <<pc, raised>>
    /\ UNCHANGED <<other, screened_chars, pp_calls, left_dataframe, right_dataframe, left_before,
                   args, pair_i, files, fuzz, log, fuzzy_cols>>

\* A loop that writes each fuzzy column to the left table as soon as it is
\* collected, instead of after the loop
CollectAndRemove_AssignInLoop ==
    /\ pc = "rows"
    /\ Len(queries) = Len(left_dataframe[left_col])
    /\ fuzzy_cols' = Append(fuzzy_cols, [k \in 1..Len(queries) |-> queries[k].value])
    /\ left_dataframe' =
          [c \in DOMAIN left_dataframe \cup {FuzzyName(left_col)} |->
              IF c = FuzzyName(left_col) THEN [k \in 1..Len(queries) |-> queries[k].value]
              ELSE left_dataframe[c]]
    /\ IF ~exists(files, dict_name)
       THEN /\ Raise(Exception("FileNotFoundError", dict_name, 476))
            /\ UNCHANGED <<files, pair_i>>
       ELSE IF ~exists(remove(files, dict_name), ProcessedName(dict_name))
       THEN /\ files' = remove(files, dict_name)
            /\ Raise(Exception("FileNotFoundError", ProcessedName(dict_name), 477))
            /\ UNCHANGED pair_i
       ELSE /\ files' = remove(remove(files, dict_name), ProcessedName(dict_name))
            /\ pair_i' = pair_i + 1
            /\ pc' = LoopTo(pair_i + 1)
            /\ UNCHANGED raised
    /\ UNCHANGED <<other, screened_chars, pp_calls, right_dataframe, left_before,
                   args, fuzz, log, queries>>

\* Lines 472-478: the column is appended to fuzzy_cols, the two corpus files
\* are removed and the loop goes on
CollectAndRemove ==
    /\ pc = "rows"
    /\ Len(queries) = Len(left_dataframe[left_col])
    /\ fuzzy_cols' = Append(fuzzy_cols, [k \in 1..Len(queries) |-> queries[k].value])
    /\ IF ~exists(files, dict_name)
       THEN /\ Raise(Exception("FileNotFoundError", dict_name, 476))
            /\ UNCHANGED <<files, pair_i>>
       ELSE IF ~exists(remove(files, dict_name), ProcessedName(dict_name))
       THEN /\ files' = remove(files, dict_name)
            /\ Raise(Exception("FileNotFoundError", ProcessedName(dict_name), 477))
            /\ UNCHANGED pair_i
       ELSE /\ files' = remove(remove(files, dict_name), ProcessedName(dict_name))
            /\ pair_i' = pair_i + 1
            /\ pc' = LoopTo(pair_i + 1)
            /\ UNCHANGED raised
    /\ UNCHANGED <<other, screened_chars, pp_calls, left_dataframe, right_dataframe, left_before,
                   args, fuzz, log, queries>>

\* An assignment that does not keep the rows of a fuzzy column in the order of
\* the rows of the table
RECURSIVE AssignFrom_Misaligned(_, _, _)
AssignFrom_Misaligned(dataframe, cols, k) ==
    IF k > Len(cols) THEN dataframe
    ELSE AssignFrom_Misaligned(
            [c \in DOMAIN dataframe \cup {FuzzyName(args.left_cols.val[k])} |->
                IF c = FuzzyName(args.left_cols.val[k])
                THEN [r \in 1..Len(cols[k]) |-> cols[k][Len(cols[k]) + 1 - r]]
                ELSE dataframe[c]],
            cols, k + 1)

\* Lines 480-482: left_dataframe['fuzzy_' + left_cols[i]] = fuzzy_col, for
\* the columns cols[k..], in order
RECURSIVE AssignFrom(_, _, _)
AssignFrom(dataframe, cols, k) ==
    IF k > Len(cols) THEN dataframe
    ELSE AssignFrom(
            [c \in DOMAIN dataframe \cup {FuzzyName(args.left_cols.val[k])} |->
                IF c = FuzzyName(args.left_cols.val[k]) THEN cols[k] ELSE dataframe[c]],
            cols, k + 1)

\* Lines 479-482: the fuzzy columns are added to the left table
AssignColumns ==
    /\ pc = "assign"
    /\ left_dataframe' = AssignFrom(left_dataframe, fuzzy_cols, 1)
    /\ pc' = "done"
    /\ UNCHANGED <<other, screened_chars, pp_calls, right_dataframe, left_before, args, pair_i,
                   files, fuzz, log, queries, fuzzy_cols, raised>>

(***************************************************************************)
(* The tables and the calls of the model                                   *)
(***************************************************************************)

\* Column names
ColA == <<"a">>
ColB == <<"b">>
ColZ == <<"z">>

\* Most rows of the right column "a"
MaxRightRows == 2

\* The values of the left columns: "B a" has the canonical form "ab", "b!"
\* the form "b", "" the form "" and "Bnd" the form "bnd".
LeftValues == <<(<<"B", " ", "a">>), (<<"b", "!">>), <<>>, (<<"B", "n", "d">>)>>

\* The values of the right column "a": a plain value, one of the same
\* canonical form, one with a leading blank and one with a line break in it.
RightValues == {<<"a", "b">>, <<"b", " ", "a">>, <<" ", "a", "b">>, <<"a", "\n", "b">>}

\* The left columns "a": two rows, a value and the next one
LeftColumns == {<<LeftValues[k], LeftValues[(k % Len(LeftValues)) + 1]>> : k \in 1..Len(LeftValues)}

Reverse(s) == [k \in 1..Len(s) |-> s[Len(s) + 1 - k]]

\* The left tables: the column "a" and a second column, named "b" or named
\* like the output column of "a", with the rows of "a" in reverse order, or
\* named "b" with a second row that is no str
LeftTables ==
    {[c \in {ColA, second} |-> IF c = ColA THEN col ELSE Reverse(col)] :
        col \in LeftColumns, second \in {ColB, FuzzyName(ColA)}}
    \cup {[c \in {ColA, ColB} |-> IF c = ColA THEN col ELSE <<col[2], NaN>>] :
            col \in LeftColumns}

\* The right tables: a column "a" of up to MaxRightRows rows and a column "b"
\* whose two values have the canonical form "b"
RightTables ==
    {[c \in {ColA, ColB} |-> IF c = ColA THEN col ELSE <<(<<"B">>), (<<"b">>)>>] :
        col \in UNION {[1..n -> RightValues] : n \in 0..MaxRightRows}}

\* The second column of a left table
SecondColumn(left) == CHOOSE c \in DOMAIN left : c # ColA

\* The column lists of the calls on the left table left:
\* <<left_cols, right_cols>>
ColumnChoices(left) ==
    LET s == SecondColumn(left)
    IN  {<<List(<<ColA>>), List(<<ColA>>)>>,
         <<List(<<ColA>>), None>>,
         <<List(<<ColA, s>>), List(<<ColA, ColB>>)>>,
         <<List(<<ColA, ColA>>), List(<<ColA, ColB>>)>>,
         <<List(<<ColA, s>>), List(<<ColB, ColB>>)>>,
         <<List(<<ColA, s>>), None>>,
         <<List(<<ColA, s>>), List(<<ColA, s>>)>>,
         <<List(<<ColA, s>>), List(<<ColA>>)>>,
         <<List(<<ColA>>), List(<<ColA, ColB>>)>>,
         <<List(<<ColZ>>), List(<<ColA>>)>>,
         <<List(<<>>), None>>,
         <<ATuple, None>>,
         <<List(<<ColA>>), ATuple>>}

\* null_return and max_edit_distance of the calls
OptionChoices ==
    {<<None, 1>>, <<None, 2>>, <<Str(<<>>), 1>>, <<Str(<<"X">>), 2>>,
     <<AnInt, 2>>, <<None, 0>>}

NoArgs == [left_cols |-> None, right_cols |-> None, right_cols_given |-> None,
           null_return |-> None, max_edit_distance |-> 0]

Init ==
    /\ screened_chars = DefaultScreenedChars
    /\ pp_calls = <<>>
    /\ left_dataframe \in LeftTables
    /\ right_dataframe \in RightTables
    /\ left_before = left_dataframe
    /\ args = NoArgs
    /\ pc = "ready"
    /\ pair_i = 0
    /\ files = [n \in {} |-> <<>>]
    /\ fuzz = None
    /\ log = <<>>
    /\ queries = <<>>
    /\ fuzzy_cols = <<>>
    /\ raised = None
    /\ other = None

\* A call of get_fuzzy_columns on the two tables
CallGetFuzzyColumns ==
    \E cols \in ColumnChoices(left_dataframe), opts \in OptionChoices :
        GetFuzzyColumns([left_cols |-> cols[1], right_cols |-> cols[2],
                         right_cols_given |-> cols[2],
                         null_return |-> opts[1], max_edit_distance |-> opts[2]])

Next ==
    \/ CallGetFuzzyColumns
    \/ StageCorpus
    \/ PreprocessCorpus
    \/ CreateSymspellDict
    \/ CreateIndex
    \/ GetFuzzyColumn
    \/ QueryRow
    \/ CollectAndRemove
    \/ AssignColumns

Spec == Init /\ [][Next]_vars

(***************************************************************************)
(* A PreProcessor object and the calls made on it                          *)
(***************************************************************************)

\* Longest argument of the first preprocess call
MaxLen == 4

\* The characters of the arguments: a lowercase and an uppercase letter, the
\* ampersand, another screened character and two whitespace characters.
Alphabet == {"a", "B", "&", "!", " ", "\n"}

Strings(n) == UNION {[1..k -> Alphabet] : k \in 0..n}

\* Values the caller may give screened_chars after instantiation: nothing
\* screened, the ampersand alone, a whitespace character, a letter screened
\* before or after the ampersand, a line break.
CustomScreenedChars ==
    {<<>>, <<"&">>, <<" ">>, <<"a", "&">>, <<"&", "a">>, <<"\n", "!">>}

\* The whitespace put between and before the tokens of a reordering
Separators == {<<" ">>, <<"\n">>, <<" ", " ">>}
Margins == {<<>>, <<" ">>}

TokenOrders(n) == {f \in [1..n -> 1..n] : \A i, j \in 1..n : f[i] = f[j] => i = j}

RECURSIVE JoinWith(_, _)
JoinWith(tl, seps) ==
    IF tl = <<>> THEN <<>>
    ELSE IF Len(tl) = 1 THEN Head(tl)
    ELSE Head(tl) \o Head(seps) \o JoinWith(Tail(tl), Tail(seps))

\* The strings made of the whitespace-separated tokens of s in another order
Reorderings(s) ==
    LET tl == split(s)
        n  == Len(tl)
    IN  {lead \o JoinWith([k \in 1..n |-> tl[f[k]]], seps) :
            f \in TokenOrders(n), seps \in [1..(n - 1) -> Separators], lead \in Margins}

InitPre ==
    /\ screened_chars = DefaultScreenedChars
    /\ pp_calls = <<>>
    /\ left_dataframe = [c \in {} |-> <<>>]
    /\ right_dataframe = [c \in {} |-> <<>>]
    /\ left_before = left_dataframe
    /\ args = NoArgs
    /\ pc = "idle"
    /\ pair_i = 0
    /\ files = [n \in {} |-> <<>>]
    /\ fuzz = None
    /\ log = <<>>
    /\ queries = <<>>
    /\ fuzzy_cols = <<>>
    /\ raised = None
    /\ other = None

\* The caller resets the screened_chars attribute (preprocess.py, class docstring)
SetScreenedChars ==
    /\ pp_calls = <<>>
    /\ screened_chars = DefaultScreenedChars
    /\ screened_chars' \in CustomScreenedChars
    /\ UNCHANGED pp_calls
    /\ UNCHANGED run_vars

Call(s) == pp_calls' = Append(pp_calls, [s |-> s, t |-> preprocess(s, screened_chars)])

\* preprocess(s) for any string s
PreprocessString ==
    /\ pp_calls = <<>>
    /\ \E s \in Strings(MaxLen) : Call(s)
    /\ UNCHANGED screened_chars
    /\ UNCHANGED run_vars

\* preprocess applied to the result of the first call
PreprocessResult ==
    /\ Len(pp_calls) = 1
    /\ Call(pp_calls[1].t)
    /\ UNCHANGED screened_chars
    /\ UNCHANGED run_vars

\* preprocess applied to the first argument with its tokens reordered
PreprocessReordered ==
    /\ Len(pp_calls) = 1
    /\ \E s2 \in Reorderings(pp_calls[1].s) : Call(s2)
    /\ UNCHANGED screened_chars
    /\ UNCHANGED run_vars

NextPre ==
    \/ SetScreenedChars
    \/ PreprocessString
    \/ PreprocessResult
    \/ PreprocessReordered

SpecPre == InitPre /\ [][NextPre]_vars

HasSpace(s) == \E k \in 1..Len(s) : IsSpace(s[k])

\* The tokens of s as a bag: token -> number of occurrences
TokenCount(s, tok) == Cardinality({k \in 1..Len(split(s)) : split(s)[k] = tok})
SameTokens(s1, s2) ==
    /\ Len(split(s1)) = Len(split(s2))
    /\ \A k \in 1..Len(split(s1)) : TokenCount(s1, split(s1)[k]) = TokenCount(s2, split(s1)[k])

\* C5: with the default screened characters, preprocessing a canonical form
\* gives it back: preprocess(preprocess(s)) = preprocess(s).
C5_Idempotent ==
    (/\ screened_chars = DefaultScreenedChars
     /\ Len(pp_calls) = 2
     /\ pp_calls[2].s = pp_calls[1].t)
        => pp_calls[2].t = pp_calls[1].t

\* C5 witness: a second call on a canonical form that differs from the raw
\* string by case, screening, the ampersand and the token order.
C5_Witness ==
    /\ screened_chars = DefaultScreenedChars
    /\ Len(pp_calls) = 2
    /\ pp_calls[1].s = <<"B", " ", "&", "!">>
    /\ pp_calls[1].t = <<"a", "n", "d", "b">>
    /\ pp_calls[2].s = pp_calls[1].t
    /\ pp_calls[2].t = pp_calls[1].t

\* C6: whatever the string and whatever screened_chars is, every preprocess
\* call returns a string, and that string holds no whitespace character.
C6_NoWhitespace ==
    \A k \in 1..Len(pp_calls) :
        /\ \A j \in 1..Len(pp_calls[k].t) : pp_calls[k].t[j] \in Chars
        /\ ~HasSpace(pp_calls[k].t)

\* C6 witnesses: the empty string, a string of screened and whitespace
\* characters only, and an ampersand under a custom screened_chars.
C6_Witness ==
    /\ screened_chars = <<"&", "a">>
    /\ Len(pp_calls) = 1
    /\ pp_calls[1].s = <<" ", "&", "\n", "B">>
    /\ pp_calls[1].t = <<"b", "n", "d">>

C6_WitnessEmpty ==
    /\ Len(pp_calls) = 2
    /\ pp_calls[1].s = <<"!", " ", "\n">>
    /\ pp_calls[1].t = <<>>
    /\ pp_calls[2].s = <<>>
    /\ pp_calls[2].t = <<>>

\* C7: two strings with the same whitespace-separated tokens, in any order
\* and with any whitespace around them, have the same canonical form (for the
\* default screened characters and any others that screen no whitespace).
C7_OrderInsensitive ==
    (/\ Len(pp_calls) = 2
     /\ ~HasSpace(screened_chars)
     /\ SameTokens(pp_calls[1].s, pp_calls[2].s))
        => pp_calls[2].t = pp_calls[1].t

\* C7 witness: the tokens "b" and "a&" given in the two orders
C7_Witness ==
    /\ screened_chars = DefaultScreenedChars
    /\ Len(pp_calls) = 2
    /\ pp_calls[1].s = <<"B", " ", "a", "&">>
    /\ pp_calls[2].s = <<" ", "a", "&", "\n", "B">>
    /\ pp_calls[1].t = <<"a", "a", "n", "d", "b">>
    /\ pp_calls[2].t = pp_calls[1].t

(***************************************************************************)
(* Claims about Fuzzy and get_fuzzy_columns                                *)
(***************************************************************************)

\* The right column and the original left value of a recorded query
RightColumnOf(q) == right_dataframe[args.right_cols.val[q.pair]]
LeftValueOf(q, k) == left_before[args.left_cols.val[q.pair]][k]

\* The value the claims expect in the output column on a miss
MissValue(q, k) ==
    IF args.null_return = None THEN LeftValueOf(q, k) ELSE args.null_return.val

\* C1: on a miss (the matcher's distance is above max_edit_distance) the value
\* returned for the row, collected in fuzzy_cols and written to the output
\* column is the row's original left value when null_return is None, and
\* null_return itself (the empty string included) otherwise.
C1_MissFallback ==
    \A k \in 1..Len(queries) :
        queries[k].distance > args.max_edit_distance =>
            /\ queries[k].value = MissValue(queries[k], k)
            /\ Len(fuzzy_cols) >= queries[k].pair =>
                  fuzzy_cols[queries[k].pair][k] = MissValue(queries[k], k)
            /\ pc = "done" =>
                  left_dataframe[FuzzyName(args.left_cols.val[queries[k].pair])][k]
                      = MissValue(queries[k], k)

\* C1 witness: with null_return None, the row "Bnd" (canonical form "bnd") of
\* a finished call is a miss and the output column holds "Bnd".
C1_Witness ==
    /\ pc = "done"
    /\ args.null_return = None
    /\ Len(queries) = 2
    /\ queries[2].qstring = <<"B", "n", "d">>
    /\ queries[2].distance > args.max_edit_distance
    /\ left_dataframe[FuzzyName(args.left_cols.val[queries[2].pair])][2] = <<"B", "n", "d">>

\* C1, second witness: with null_return "" a miss writes the empty string
C1_WitnessEmptySentinel ==
    /\ pc = "done"
    /\ args.null_return = Str(<<>>)
    /\ Len(queries) = 2
    /\ queries[1].qstring = <<"B", "n", "d">>
    /\ queries[1].distance > args.max_edit_distance
    /\ left_dataframe[FuzzyName(args.left_cols.val[queries[1].pair])][1] = <<>>

\* C2: the threshold of Fuzzy.query is inclusive.  A query whose suggestion is
\* at distance d returns found = TRUE when d <= max_edit_distance and found =
\* FALSE when d = max_edit_distance + 1 (the unknown-term suggestion), and it
\* does return: no query of a str ends with an exception.
C2_ThresholdInclusive ==
    /\ \A k \in 1..Len(queries) :
          /\ queries[k].distance <= args.max_edit_distance => queries[k].found
          /\ queries[k].distance = args.max_edit_distance + 1 => ~queries[k].found
    /\ raised # None => raised.line \notin {281, 286, 304}

\* C2 witness: with max_edit_distance 2, "" is at distance 2 of "ab" and is
\* found, and "Bnd" gets the unknown-term suggestion at distance 3, a miss.
C2_Witness ==
    /\ args.max_edit_distance = 2
    /\ Len(queries) = 2
    /\ queries[1].qstring = <<>>
    /\ queries[1].term = <<"a", "b">>
    /\ queries[1].distance = 2
    /\ queries[1].found
    /\ queries[2].term = <<"b", "n", "d">>
    /\ queries[2].distance = 3
    /\ ~queries[2].found

Canonical(v) == preprocess(v, screened_chars)
Occurrences(column, v) == Cardinality({m \in 1..Len(column) : column[m] = v})
Notices(v) == Cardinality({m \in 1..Len(log) : log[m].original = v})

\* C3: when the right column holds A and later a different B of the same
\* canonical form k, and A is the first value of that form, the index built by
\* create_index maps k to A, one conflict notice is emitted for every
\* occurrence of B and none for A.
C3_FirstSeenWins ==
    pc \in {"column", "rows"} =>
        LET column == right_dataframe[right_col]
        IN  \A m, n \in 1..Len(column) :
              (/\ m < n
               /\ column[m] # column[n]
               /\ Canonical(column[m]) = Canonical(column[n])
               /\ \A j \in 1..(m - 1) : Canonical(column[j]) # Canonical(column[m]))
                 => /\ Canonical(column[m]) \in DOMAIN fuzz.index_dictionary.val
                    /\ fuzz.index_dictionary.val[Canonical(column[m])] = column[m]
                    /\ Notices(column[n]) = Occurrences(column, column[n])
                    /\ Notices(column[m]) = 0

\* C4: a found row's output value is one of the values of the pair's right
\* column, as it stands in the right table.
C4_FoundIsRightValue ==
    \A k \in 1..Len(queries) :
        queries[k].found =>
            \E m \in 1..Len(RightColumnOf(queries[k])) :
                RightColumnOf(queries[k])[m] = queries[k].value

\* The values get_fuzzy_columns can write for the left value qstring when the
\* pair (left column, right column) is run alone
AloneValues(qstring, column) ==
    LET text  == DictText(column)
        words == create_dictionary(ProcessedText(Lines(text), screened_chars))
        index == IndexLines(EmptyIndex, Lines(text), screened_chars).map
        f     == [NewFuzzy(None, args.max_edit_distance) EXCEPT
                      !.sym_spell = [type |-> "SymSpell", words |-> words],
                      !.index_dictionary = [type |-> "dict", val |-> index]]
    IN  {apply_value(args.null_return, query(f, qstring, hit)) :
            hit \in lookup(words, preprocess(qstring, screened_chars), args.max_edit_distance)}

\* C8: after a call over two pairs, the output column of each pair is what
\* that pair run alone on the original left table writes.
C8_PairsIndependent ==
    (pc = "done" /\ Len(args.left_cols.val) = 2 /\ Len(args.right_cols.val) >= 2) =>
        \A j \in 1..2 :
            LET out == left_dataframe[FuzzyName(args.left_cols.val[j])]
                src == left_before[args.left_cols.val[j]]
            IN  /\ Len(out) = Len(src)
                /\ \A k \in 1..Len(src) :
                      out[k] \in AloneValues(src[k], right_dataframe[args.right_cols.val[j]])

EmptyDirectory == [n \in {} |-> <<>>]

\* C9: a call with right_cols = None ends as the call with right_cols =
\* left_cols does.  When that call fails its checks, the call with None must
\* end with the same error (a KeyError counts as a LookupError) about the same
\* column and leave the directory and the left table as they were.
C9_NoneLikeLeftCols ==
    (pc \in {"done", "raised"} /\ args.right_cols_given = None /\ args.left_cols.type = "list") =>
        LET e == CheckInputs([args EXCEPT !.right_cols = args.left_cols],
                             left_before, right_dataframe)
        IN  e # None =>
              /\ pc = "raised"
              /\ raised.what = e.what
              /\ (raised.type = e.type \/ (raised.type = "KeyError" /\ e.type = "LookupError"))
              /\ files = EmptyDirectory
              /\ left_dataframe = left_before

\* The configuration errors of a call
ConfigurationError(a) ==
    \/ a.left_cols.type # "list"
    \/ a.right_cols_given.type \notin {"list", "NoneType"}
    \/ a.null_return.type \notin {"str", "NoneType"}
    \/ a.max_edit_distance < 1
    \/ /\ a.left_cols.type = "list"
       /\ a.right_cols_given.type = "list"
       /\ Len(a.left_cols.val) # Len(a.right_cols_given.val)

\* C10: a call with a configuration error is ended by the checks of lines
\* 421-458: no file is staged, no Fuzzy object is built, no column is
\* collected and the left table is as it was.
C10_ConfigurationErrorsEager ==
    (pc \notin {"ready", "idle"} /\ ConfigurationError(args)) =>
        /\ pc = "raised"
        /\ raised.line <= 458
        /\ files = EmptyDirectory
        /\ fuzz = None
        /\ fuzzy_cols = <<>>
        /\ left_dataframe = left_before

\* C11: after a successful call the left table has one more column for every
\* entry of left_cols, and the column named "fuzzy_" + left_cols[k] holds the
\* results of pair k.
C11_OneColumnPerEntry ==
    pc = "done" =>
        /\ Cardinality(DOMAIN left_dataframe \ DOMAIN left_before) = Len(args.left_cols.val)
        /\ \A k \in 1..Len(args.left_cols.val) :
              /\ FuzzyName(args.left_cols.val[k]) \in DOMAIN left_dataframe
              /\ left_dataframe[FuzzyName(args.left_cols.val[k])] = fuzzy_cols[k]

\* The entries of left_cols that no later entry repeats
LastOfName(j) ==
    \A m \in (j + 1)..Len(args.left_cols.val) : args.left_cols.val[m] # args.left_cols.val[j]

\* C12: the rows of a pair's left column are queried in order, the column
\* collected for the pair has as many rows as the left column, its row k is a
\* result of the query of row k, and the output column the pair writes is that
\* column, row for row.
C12_RowOrderPreserved ==
    /\ pc = "rows" =>
          \A k \in 1..Len(queries) : queries[k].qstring = left_before[left_col][k]
    /\ \A j \in 1..Len(fuzzy_cols) :
          Len(fuzzy_cols[j]) = Len(left_before[args.left_cols.val[j]])
    /\ pc \in {"assign", "done"} =>
          \A j \in 1..Len(fuzzy_cols) :
              \A k \in 1..Len(fuzzy_cols[j]) :
                  fuzzy_cols[j][k] \in AloneValues(left_before[args.left_cols.val[j]][k],
                                                   right_dataframe[args.right_cols.val[j]])
    /\ pc = "done" =>
          \A j \in 1..Len(args.left_cols.val) :
              LastOfName(j) => left_dataframe[FuzzyName(args.left_cols.val[j])] = fuzzy_cols[j]

\* C12 witness: the left column ("", "Bnd") against the right column ("ab")
\* with max_edit_distance 2 gives the output column ("ab", "Bnd").
C12_Witness ==
    /\ pc = "done"
    /\ args.left_cols.val = <<ColA>>
    /\ args.null_return = None
    /\ left_before[ColA] = <<(<<>>), (<<"B", "n", "d">>)>>
    /\ right_dataframe[ColA] = <<(<<"a", "b">>)>>
    /\ left_dataframe[FuzzyName(ColA)] = <<(<<"a", "b">>), (<<"B", "n", "d">>)>>

\* The requested columns that are absent from their table
Requested(cols) == {cols.val[k] : k \in 1..Len(cols.val)}
AbsentLeft == {c \in Requested(args.left_cols) : c \notin DOMAIN left_before}
AbsentRight ==
    {c \in Requested(IF args.right_cols = None THEN args.left_cols ELSE args.right_cols) :
        c \notin DOMAIN right_dataframe}

\* C13: a call that asks for a column absent from its table ends with a lookup
\* error (LookupError or its subclass KeyError) whose report names an absent
\* column and every column of the table it is absent from.
C13_LookupErrorListsColumns ==
    (/\ pc \in {"done", "raised"}
     /\ args.left_cols.type = "list"
     /\ args.right_cols.type \in {"list", "NoneType"}
     /\ AbsentLeft \cup AbsentRight # {}) =>
        /\ pc = "raised"
        /\ raised.type \in {"LookupError", "KeyError"}
        /\ \/ /\ raised.what \in AbsentLeft
              /\ DOMAIN left_before \subseteq ReportedColumns(raised, left_before)
           \/ /\ raised.what \in AbsentRight
              /\ DOMAIN right_dataframe \subseteq ReportedColumns(raised, right_dataframe)

\* C15: whenever no pair is being processed (between two pairs, after the
\* loop, and after the call has returned or raised) neither a staged corpus
\* file nor a preprocessed copy exists.
C15_NoFilesRemain ==
    pc \in {"stage", "assign", "done", "raised"} => files = EmptyDirectory

\* The rows of column whose canonical form is that of v
SameForm(column, v) == {m \in 1..Len(column) : Canonical(column[m]) = Canonical(v)}

\* C18: a left value whose canonical form is that of some value of the right
\* column is found, and its output is the first such value of the right column.
C18_SameFormFound ==
    \A k \in 1..Len(queries) :
        LET column == RightColumnOf(queries[k])
            same   == SameForm(column, queries[k].qstring)
        IN  same # {} =>
              /\ queries[k].found
              /\ queries[k].value = column[Min(same)]

\* C19: once the matcher and the index of a pair are built, every term of the
\* matcher's vocabulary is a key of the index, and no query ends with the
\* KeyError of line 304.
C19_VocabularyIndexed ==
    /\ pc \in {"column", "rows"} =>
          DOMAIN fuzz.sym_spell.words \subseteq DOMAIN fuzz.index_dictionary.val
    /\ raised # None => raised.line # 304

\* C19 witness: a vocabulary of two terms, and a query that was resolved
\* through the index
C19_Witness ==
    /\ pc = "rows"
    /\ Cardinality(DOMAIN fuzz.sym_spell.words) = 2
    /\ Len(queries) >= 1
    /\ queries[1].found
    /\ queries[1].term \in DOMAIN fuzz.sym_spell.words

\* C20: until the call has returned, and so after it has raised, the left
\* table is as it was when the call was made.
C20_RaiseLeavesTable ==
    pc # "done" => left_dataframe = left_before

\* C20 witness: the call raises in a query of pair 2 (a row that is no str)
\* after pair 1 was processed and its column collected.
C20_Witness ==
    /\ pc = "raised"
    /\ raised.line = 276
    /\ pair_i = 2
    /\ Len(fuzzy_cols) = 1
    /\ Len(queries) = 1
    /\ left_dataframe = left_before

(***************************************************************************)
(* A Fuzzy object and the calls made on it                                 *)
(***************************************************************************)

\* Most Fuzzy.query calls made on the objects
MaxQueries == 2

\* The corpus file of the objects, and the texts it holds
CorpusName == <<"corpus.txt">>
CorpusTexts ==
    {<<>>,
     DictText(<<(<<"a", "b">>)>>),
     DictText(<<(<<"b", " ", "a">>), (<<"a", "b">>)>>)}

\* The arguments of the queries
QueryStrings == {<<"a", "b">>, <<"B", "n", "d">>, NaN}

\* What a method leaves: the object, the directory, the warnings of
\* create_index and the exception raised (or None)
Outcome(f, fs, lg, e) == [fuzz |-> f, files |-> fs, log |-> lg, raised |-> e]

\* Fuzzy.check_corpus, lines 140-153: the exception raised, or None
check_corpus(f, fs) ==
    IF f.corpus = None THEN None
    ELSE IF ~exists(fs, f.corpus.val)
    THEN Exception("FileNotFoundError", f.corpus.val, 150)
    ELSE None

\* Fuzzy.preprocess_corpus, lines 155-184
preprocess_corpus(f, fs, lg, sc) ==
    IF f.preprocess_flag THEN Outcome(f, fs, lg, None)
    ELSE IF f.corpus = None
    THEN Outcome(f, fs, lg, Exception("FileNotFoundError", <<"self.corpus">>, 168))
    ELSE IF check_corpus(f, fs) # None THEN Outcome(f, fs, lg, check_corpus(f, fs))
    ELSE Outcome([f EXCEPT !.unprocessed_corpus = f.corpus,
                           !.corpus = Str(ProcessedName(f.corpus.val)),
                           !.preprocess_flag = TRUE],
                 WriteFile(fs, ProcessedName(f.corpus.val),
                           ProcessedText(Lines(fs[f.corpus.val]), sc)),
                 lg, None)

\* Fuzzy.create_symspell_dict, lines 186-202.  Without a corpus the SymSpell
\* object is made (line 195) and create_dictionary(None) either reads nothing
\* or raises (reads is FALSE); the object keeps the empty SymSpell.
create_symspell_dict(f, fs, lg, reads) ==
    IF check_corpus(f, fs) # None THEN Outcome(f, fs, lg, check_corpus(f, fs))
    ELSE IF f.corpus = None
    THEN Outcome([f EXCEPT !.sym_spell = [type |-> "SymSpell", words |-> create_dictionary(<<>>)]],
                 fs, lg,
                 IF reads THEN None ELSE Exception("TypeError", <<"corpus">>, 202))
    ELSE Outcome([f EXCEPT !.sym_spell = [type |-> "SymSpell",
                                          words |-> create_dictionary(fs[f.corpus.val])]],
                 fs, lg, None)

\* Fuzzy.create_index, lines 204-255
create_index(f, fs, lg, sc) ==
    IF check_corpus(f, fs) # None THEN Outcome(f, fs, lg, check_corpus(f, fs))
    ELSE IF ~f.preprocess_flag
    THEN Outcome(f, fs, lg, Exception("FileNotFoundError", <<"self.corpus">>, 222))
    ELSE IF ~exists(fs, f.unprocessed_corpus.val)
    THEN Outcome(f, fs, lg, Exception("FileNotFoundError", f.unprocessed_corpus.val, 228))
    ELSE LET built == IndexLines(EmptyIndex, Lines(fs[f.unprocessed_corpus.val]), sc)
         IN  Outcome([f EXCEPT !.index_dictionary = [type |-> "dict", val |-> built.map]],
                     fs, built.log, None)

\* Lines 130-132 of Fuzzy.__init__: the matcher and the index are built when
\* the corpus was preprocessed
Bootstrap(o, sc) ==
    IF o.raised # None \/ ~o.fuzz.preprocess_flag THEN o
    ELSE LET s == create_symspell_dict(o.fuzz, o.files, o.log, TRUE)
         IN  IF s.raised # None THEN s ELSE create_index(s.fuzz, s.files, s.log, sc)

\* Fuzzy.__init__, lines 107-132.  Line 128 tests the module preprocess, which
\* is true: preprocess_corpus is always called.
Fuzzy__init__(input_corpus, max_edit_distance, fs, sc) ==
    LET f == NewFuzzy(input_corpus, max_edit_distance)
    IN  IF check_corpus(f, fs) # None THEN Outcome(f, fs, <<>>, check_corpus(f, fs))
        ELSE Bootstrap(preprocess_corpus(f, fs, <<>>, sc), sc)

\* The code that holds the object: before any call, and after each call
ClientPcs == {"client", "init", "preprocess_corpus", "create_symspell_dict",
              "create_index", "query"}

\* The object is either not made yet or as lines 113-120 of __init__ set it,
\* with or without a corpus: the state from which the corpus is loaded and
\* the methods are called one by one (class docstring, lines 80-81).
InitFuzzy ==
    /\ screened_chars = DefaultScreenedChars
    /\ pp_calls = <<>>
    /\ left_dataframe = [c \in {} |-> <<>>]
    /\ right_dataframe = [c \in {} |-> <<>>]
    /\ left_before = left_dataframe
    /\ args = NoArgs
    /\ pc = "client"
    /\ pair_i = 0
    /\ files \in {EmptyDirectory}
                 \cup {WriteFile(EmptyDirectory, CorpusName, text) : text \in CorpusTexts}
    /\ fuzz \in {None} \cup {NewFuzzy(c, 1) : c \in {None, Str(CorpusName)}}
    /\ log = <<>>
    /\ queries = <<>>
    /\ fuzzy_cols = <<>>
    /\ raised = None
    /\ other = None

\* A method has run on the object
Apply(o) == fuzz' = o.fuzz /\ files' = o.files /\ log' = o.log /\ raised' = o.raised

\* fuzz = Fuzzy(input_corpus, max_edit_distance_dictionary=1): when __init__
\* raises, fuzz keeps the object it was bound to
NewObject ==
    /\ pc \in ClientPcs
    /\ \E input_corpus \in {None, Str(CorpusName)} :
          LET o == Fuzzy__init__(input_corpus, 1, files, screened_chars)
          IN  /\ fuzz' = IF o.raised = None THEN o.fuzz ELSE fuzz
              /\ files' = o.files
              /\ log' = o.log
              /\ raised' = o.raised
              /\ args' = [input_corpus |-> input_corpus, max_edit_distance |-> 1]
    /\ pc' = "init"
    /\ UNCHANGED <<other, screened_chars, pp_calls, left_dataframe, right_dataframe, left_before,
                   pair_i, queries, fuzzy_cols>>

\* fuzz.preprocess_corpus()
CallPreprocessCorpus ==
    /\ pc \in ClientPcs
    /\ fuzz # None
    /\ Apply(preprocess_corpus(fuzz, files, log, screened_chars))
    /\ pc' = "preprocess_corpus"
    /\ UNCHANGED <<other, screened_chars, pp_calls, left_dataframe, right_dataframe, left_before,
                   args, pair_i, queries, fuzzy_cols>>

\* fuzz.create_symspell_dict()
CallCreateSymspellDict ==
    /\ pc \in ClientPcs
    /\ fuzz # None
    /\ \E reads \in BOOLEAN : Apply(create_symspell_dict(fuzz, files, log, reads))
    /\ pc' = "create_symspell_dict"
    /\ UNCHANGED <<other, screened_chars, pp_calls, left_dataframe, right_dataframe, left_before,
                   args, pair_i, queries, fuzzy_cols>>

\* fuzz.create_index()
CallCreateIndex ==
    /\ pc \in ClientPcs
    /\ fuzz # None
    /\ Apply(create_index(fuzz, files, log, screened_chars))
    /\ pc' = "create_index"
    /\ UNCHANGED <<other, screened_chars, pp_calls, left_dataframe, right_dataframe, left_before,
                   args, pair_i, queries, fuzzy_cols>>

\* fuzz.query(qstring): the call is recorded with the state of the object it
\* was made on and with what it raised or returned
CallQuery ==
    /\ pc \in ClientPcs
    /\ fuzz # None
    /\ Len(queries) < MaxQueries
    /\ \E qstring \in QueryStrings :
          \E hit \in Suggestions(fuzz, qstring, screened_chars) :
            LET result == query(fuzz, qstring, hit)
            IN  /\ queries' = Append(queries,
                       [qstring |-> qstring,
                        index_built |-> fuzz.index_dictionary # None,
                        matcher_built |-> fuzz.sym_spell # None,
                        raised |-> result.raised,
                        out |-> result.out,
                        found |-> result.found])
                /\ raised' = result.raised
    /\ pc' = "query"
    /\ UNCHANGED <<other, screened_chars, pp_calls, left_dataframe, right_dataframe, left_before,
                   args, pair_i, files, fuzz, log, fuzzy_cols>>

NextFuzzy ==
    \/ NewObject
    \/ CallPreprocessCorpus
    \/ CallCreateSymspellDict
    \/ CallCreateIndex
    \/ CallQuery

SpecFuzzy == InitFuzzy /\ [][NextFuzzy]_vars

\* C14: a query of a str made on an object whose index or whose matcher is not
\* built raises the ValueError of line 281 or 286 and returns nothing: neither
\* a hit nor a miss.
C14_UnbuiltQueryRaises ==
    \A k \in 1..Len(queries) :
        (/\ pc \in ClientPcs
         /\ IsStr(queries[k].qstring)
         /\ ~(queries[k].index_built /\ queries[k].matcher_built)) =>
            /\ queries[k].raised # None
            /\ queries[k].raised.type = "ValueError"
            /\ queries[k].raised.line = (IF queries[k].index_built THEN 286 ELSE 281)

\* C14 witness: a query made after create_symspell_dict alone (the index is
\* not built) raised at line 281
C14_Witness ==
    /\ pc = "query"
    /\ Len(queries) = 1
    /\ queries[1].qstring = <<"a", "b">>
    /\ queries[1].matcher_built
    /\ ~queries[1].index_built
    /\ raised = Exception("ValueError", <<"index_dictionary">>, 281)

\* C14, second witness: a query made after preprocess_corpus and create_index
\* (the matcher is not built) raised at line 286
C14_WitnessNoMatcher ==
    /\ pc = "query"
    /\ Len(queries) = 1
    /\ queries[1].qstring = <<"a", "b">>
    /\ queries[1].index_built
    /\ ~queries[1].matcher_built
    /\ raised = Exception("ValueError", <<"sym_spell">>, 286)

\* C17: Fuzzy(input_corpus=None) raises nothing and gives an object without
\* corpus, matcher and index.
C17_ConstructWithoutCorpus ==
    (pc = "init" /\ args.input_corpus = None) =>
        /\ raised = None
        /\ fuzz # None
        /\ fuzz.corpus = None
        /\ fuzz.sym_spell = None
        /\ fuzz.index_dictionary = None

(***************************************************************************)
(* Two get_fuzzy_columns calls in one working directory                    *)
(***************************************************************************)

\* What a call has of its own: its arguments and its local variables.  The
\* working directory is shared.
CallState ==
    [left_dataframe |-> left_dataframe, right_dataframe |-> right_dataframe,
     left_before |-> left_before, args |-> args, pc |-> pc, pair_i |-> pair_i,
     fuzz |-> fuzz, log |-> log, queries |-> queries, fuzzy_cols |-> fuzzy_cols,
     raised |-> raised]

\* The left table of both calls, and the right tables: each call has its own
\* right table, with its own values in the column "a"
SharedLeftTable ==
    [c \in {ColA, ColB} |-> <<(<<"B", " ", "a">>), (<<"b", "!">>)>>]
RightTableOf(column) ==
    [c \in {ColA, ColB} |-> IF c = ColA THEN column ELSE <<(<<"B">>), (<<"b">>)>>]
FirstRightColumns == {<<(<<"a", "b">>)>>, <<(<<"a", "b">>), (<<"b", " ", "a">>)>>}
SecondRightColumns == {<<(<<"b">>)>>, <<>>}

\* Two calls are about to be made: one is running, the other is suspended
InitConcurrent ==
    /\ screened_chars = DefaultScreenedChars
    /\ pp_calls = <<>>
    /\ left_dataframe = SharedLeftTable
    /\ right_dataframe \in {RightTableOf(column) : column \in FirstRightColumns}
    /\ left_before = left_dataframe
    /\ args = NoArgs
    /\ pc = "ready"
    /\ pair_i = 0
    /\ files = [n \in {} |-> <<>>]
    /\ fuzz = None
    /\ log = <<>>
    /\ queries = <<>>
    /\ fuzzy_cols = <<>>
    /\ raised = None
    /\ other \in {[left_dataframe |-> SharedLeftTable, right_dataframe |-> RightTableOf(column),
                    left_before |-> SharedLeftTable, args |-> NoArgs, pc |-> "ready",
                    pair_i |-> 0, fuzz |-> None, log |-> <<>>, queries |-> <<>>,
                    fuzzy_cols |-> <<>>, raised |-> None] : column \in SecondRightColumns}

\* get_fuzzy_columns(left, right, left_cols=['a'], right_cols=['a'],
\* max_edit_distance=1), by the running call
CallOnColumnA ==
    \E cols \in {List(<<ColA>>)} :
        GetFuzzyColumns([left_cols |-> cols, right_cols |-> cols, right_cols_given |-> cols,
                         null_return |-> None, max_edit_distance |-> 1])

\* The running call is suspended and the other call goes on
Switch ==
    /\ other # None
    /\ other' = CallState
    /\ left_dataframe' = other.left_dataframe
    /\ right_dataframe' = other.right_dataframe
    /\ left_before' = other.left_before
    /\ args' = other.args
    /\ pc' = other.pc
    /\ pair_i' = other.pair_i
    /\ fuzz' = other.fuzz
    /\ log' = other.log
    /\ queries' = other.queries
    /\ fuzzy_cols' = other.fuzzy_cols
    /\ raised' = other.raised
    /\ UNCHANGED <<screened_chars, pp_calls, files>>

NextConcurrent ==
    \/ CallOnColumnA
    \/ StageCorpus
    \/ PreprocessCorpus
    \/ CreateSymspellDict
    \/ CreateIndex
    \/ GetFuzzyColumn
    \/ QueryRow
    \/ CollectAndRemove
    \/ AssignColumns
    \/ Switch

SpecConcurrent == InitConcurrent /\ [][NextConcurrent]_vars

\* The text a call stages for its own right column "a"
OwnText == DictText(right_dataframe[ColA])

\* C16: of two calls on the right column name "a" that run interleaved in one
\* directory, each builds its matcher and its index from the values of its own
\* right column, neither raises, and each writes the output it writes alone.
C16_ConcurrentPairsIndependent ==
    other # None =>
        /\ pc # "raised"
        /\ pc \in {"index", "column", "rows"} =>
              fuzz.sym_spell.words
                  = create_dictionary(ProcessedText(Lines(OwnText), screened_chars))
        /\ pc \in {"column", "rows"} =>
              fuzz.index_dictionary.val
                  = IndexLines(EmptyIndex, Lines(OwnText), screened_chars).map
        /\ pc = "done" =>
              \A k \in 1..Len(left_before[ColA]) :
                  left_dataframe[FuzzyName(ColA)][k]
                      \in AloneValues(left_before[ColA][k], right_dataframe[ColA])

====
